---- MODULE Spec2Model ----
\* Model of chain/core/asset/account.go: AccountReserver.Reserve, breakupChange,
\* NewAccountDestination, CancelReservations and LoadAccountInfo, together with
\* the collaborators they call (utxodb, accounts, txscript, pg).
EXTENDS Integers, Sequences, FiniteSets, TLC

\* ---------------------------------------------------------------- bounds

\* Width of the model's unsigned amounts (the code's uint64, scaled down).
UintBits == 4
\* Number of unspent outputs the ledger holds.
MaxOutputs == 2
\* Largest amount a Reserve invocation asks for.
MaxRequest == 2
\* Largest number of outputs handed to LoadAccountInfo.
MaxOuts == 3
\* Largest number of rows of account_control_programs.
MaxPrograms == 4

\* ---------------------------------------------------------------- values

MaxUint == 2^UintBits - 1
Uint == 0..MaxUint
Outpoints == 1..MaxOutputs
Invocations == {"r1", "r2"}
\* The invocations are named in the order of their calls of the engine.
Before(p) == IF p = "r2" THEN {"r1"} ELSE {}
AccountIDs == {"acc1", "acc2"}
None == "none"
Tokens == {None, "tok1"}
\* The optional outpoint filter of a reserver: no outpoint, or one.
Filters == {{}} \cup {{o} : o \in Outpoints}
NoErr == [kind |-> "nil", stage |-> ""]
\* The error slot of a call that has not been made.
NotCalled == [kind |-> "not called", stage |-> ""]

RECURSIVE SumSeq(_)
SumSeq(s) == IF s = <<>> THEN 0 ELSE Head(s) + SumSeq(Tail(s))

Min(S) == CHOOSE x \in S : \A y \in S : x <= y
Max(S) == CHOOSE x \in S : \A y \in S : x >= y

RECURSIVE SortedSeq(_)
SortedSeq(S) == IF S = {} THEN <<>> ELSE <<Min(S)>> \o SortedSeq(S \ {Min(S)})

Range(s) == {s[i] : i \in 1..Len(s)}

VARIABLES
    utxoAmount,     \* the ledger: the amount of each unspent output
    accounts,       \* the account directory: xpubs and quorum of each account
    reservations,   \* the reservation engine's live claims
    acps,           \* the rows of account_control_programs
    pc,             \* where each Reserve invocation stands
    req,            \* the reserver and the asset amount of each invocation
    reply,          \* what utxodb.Reserve returned to each invocation
    result,         \* the ReserveResult each invocation returned
    err,            \* the error each invocation returned
    calls,          \* the external calls each invocation made, in order
    acpsBefore,     \* the control programs that existed when each invocation began
    cancelErr,      \* the error the last CancelReservations call returned
    loadOuts,       \* the outputs of the last LoadAccountInfo call
    loadIndex,      \* the rows of account_control_programs when that call ran
    loadQuery,      \* the rows and the error the index query of that call delivered
    loadResult,     \* the annotated outputs that call returned
    loadErr,        \* the error that call returned
    splitInput,     \* the total a breakupChange call was given
    split           \* the loop state of that call

reserveVars == <<utxoAmount, accounts, reservations, pc, req, reply, result, err,
                 calls, acpsBefore, cancelErr>>
loadVars == <<loadOuts, loadIndex, loadQuery, loadResult, loadErr>>
splitVars == <<splitInput, split>>
vars == <<reserveVars, acps, loadVars, splitVars>>

\* ---------------------------------------------------------------- breakupChange

\* int64(total): the conversion of an unsigned amount to the signed type of
\* the same width.
ToInt64(total) == IF total >= 2^(UintBits - 1) THEN total - 2^UintBits ELSE total

\* The values rand.Int63n(n) may return; it panics when n <= 0.
Int63n(n) == IF n <= 0 THEN {} ELSE 0..(n - 1)

BreakupStart(total) == [total |-> total, amounts |-> <<>>, status |-> "loop"]

\* BreakupIter with the remainder appended only when it is above 1.
BreakupIterLosesRemainder(b, coin, draw) ==
    IF b.total > 1 /\ coin = 0
    THEN IF Int63n(ToInt64(b.total)) = {}
         THEN [b EXCEPT !.status = "panic"]
         ELSE LET thisChange == (1 + draw) % 2^UintBits
              IN [b EXCEPT !.amounts = Append(b.amounts, thisChange),
                           !.total = (b.total - thisChange) % 2^UintBits]
    ELSE [b EXCEPT !.amounts = IF b.total > 1 THEN Append(b.amounts, b.total)
                                               ELSE b.amounts,
                   !.status = "done"]

\* One evaluation of the loop head of breakupChange and of what follows it:
\* coin is rand.Intn(2), draw is rand.Int63n(int64(total)).
BreakupIter(b, coin, draw) ==
    IF b.total > 1 /\ coin = 0
    THEN IF Int63n(ToInt64(b.total)) = {}
         THEN [b EXCEPT !.status = "panic"]
         ELSE LET thisChange == (1 + draw) % 2^UintBits
              IN [b EXCEPT !.amounts = Append(b.amounts, thisChange),
                           !.total = (b.total - thisChange) % 2^UintBits]
    ELSE [b EXCEPT !.amounts = IF b.total > 0 THEN Append(b.amounts, b.total)
                                               ELSE b.amounts,
                   !.status = "done"]

\* The draws one evaluation of the loop head may make.
BreakupDraws(b) ==
    {<<1, 0>>} \cup
    (IF b.total > 1
     THEN IF Int63n(ToInt64(b.total)) = {}
          THEN {<<0, 0>>}
          ELSE {<<0, d>> : d \in Int63n(ToInt64(b.total))}
     ELSE {<<0, 0>>})

\* Every outcome breakupChange(total) may have: the final loop states.
RECURSIVE BreakupRun(_)
BreakupRun(b) ==
    IF b.status # "loop" THEN {b}
    ELSE UNION {BreakupRun(BreakupIter(b, c[1], c[2])) : c \in BreakupDraws(b)}

breakupChange(total) == BreakupRun(BreakupStart(total))

\* ---------------------------------------------------------------- ledger and account directory

\* The amounts an unspent output may hold: small ones, and one whose excess
\* over a request is beyond the signed range.
UtxoAmounts == {1, 3, MaxUint - 2}

UtxoOwner(o) == "acc1"

\* The reserved output the engine hands back for outpoint o (a utxodb.UTXO).
Utxo(o) ==
    [outpoint |-> o, assetID |-> "asset1", amount |-> utxoAmount[o],
     accountID |-> UtxoOwner(o), controlProgramIndex |-> <<0, o>>, script |-> o]

\* The accounts the directory may hold. The code handles the error of
\* txscript.MultiSigScript, so a quorum above the number of keys is admitted.
AccountChoices ==
    {[xpubs |-> <<"xpub1", "xpub2">>, quorum |-> q] : q \in {2, 3}}

\* accounts.Find: the account, or the error of a lookup that fails.
AccountsFind(accountID, found) ==
    IF found
    THEN [err |-> NoErr, account |-> accounts[accountID]]
    ELSE [err |-> [kind |-> "AccountNotFound", stage |-> ""], account |-> None]

\* signers.Path, hd25519.DeriveXPubs and hd25519.XPubKeys: one derived public
\* key per extended public key of the account, along the path of the index.
SignersPath(account, index) == <<"account">> \o index
DeriveXPubs(xpubs, path) == [i \in 1..Len(xpubs) |-> [xpub |-> xpubs[i], path |-> path]]
XPubKeys(derived) == [i \in 1..Len(derived) |-> [pk |-> derived[i]]]

\* txscript.MultiSigScript: the quorum-of-N redeem script.
MultiSigScript(pubkeys, nrequired) ==
    IF nrequired > Len(pubkeys)
    THEN [err |-> [kind |-> "QuorumExceedsKeys", stage |-> ""], script |-> None]
    ELSE [err |-> NoErr, script |-> [keys |-> pubkeys, quorum |-> nrequired]]

\* txbuilder.InputSigs: one signature placeholder per extended public key.
InputSigs(xpubs, path) == [i \in 1..Len(xpubs) |-> [xpub |-> xpubs[i], path |-> path]]

Programs(rows) == {row.program : row \in rows}

\* accounts.CreateControlProgram: a control program no row holds yet, and the
\* row that records it for the account.
CreateControlProgram(rows, accountID, ok) ==
    IF ok
    THEN LET n == Max(Programs(rows) \cup {0}) + 1
         IN [err |-> NoErr, program |-> n,
             rows |-> rows \cup {[program |-> n, accountID |-> accountID,
                                  keyIndex |-> <<0, n>>]}]
    ELSE [err |-> [kind |-> "AllocationFailed", stage |-> ""], program |-> 0,
          rows |-> rows]

\* The rows the directory holds at the start: one per unspent output.
InitialRows ==
    {[program |-> Utxo(o).script, accountID |-> UtxoOwner(o),
      keyIndex |-> Utxo(o).controlProgramIndex] : o \in Outpoints}

\* ---------------------------------------------------------------- reservation engine

Claimed(rsvs) == UNION {r.outs : r \in rsvs}

RECURSIVE SumAmounts(_)
SumAmounts(S) ==
    IF S = {} THEN 0 ELSE LET o == Min(S) IN utxoAmount[o] + SumAmounts(S \ {o})

\* The outputs a source may be served from, claimed or not.
Eligible(source) ==
    {o \in Outpoints : /\ UtxoOwner(o) = source.accountID
                       /\ source.filter \in {{}, {o}}}

\* A set of outputs covers an amount when it reaches it and falls short of it
\* without the output taken last.
Covers(S, amount) ==
    /\ SumAmounts(S) >= amount
    /\ \E o \in S : SumAmounts(S \ {o}) < amount

\* The change buckets the engine may be taken to report after the first one:
\* none, as for the single source Reserve sends, or one more.
NoExtraBuckets == {<<>>}
ExtraBuckets == {<<>>, <<1>>}

\* UtxodbReserve without the exclusion of the outputs already claimed.
UtxodbReserveNoExclusion(rsvs, rid, source, extras) ==
    LET same == {r \in rsvs : source.token # None /\ r.token = source.token}
        sets == {S \in SUBSET Eligible(source) : Covers(S, source.amount)}
    IN IF same # {}
       THEN {[err |-> NoErr, rid |-> r.rid, reserved |-> SortedSeq(r.outs),
              change |-> IF r.change > 0 THEN <<r.change>> ELSE <<>>,
              reservations |-> rsvs] : r \in same}
       ELSE IF sets = {}
       THEN {[err |-> [kind |-> "InsufficientFunds", stage |-> ""],
              rid |-> None, reserved |-> <<>>, change |-> <<>>, reservations |-> rsvs]}
       ELSE UNION {
              LET excess == SumAmounts(S) - source.amount
              IN {[err |-> NoErr, rid |-> rid, reserved |-> SortedSeq(S),
                   change |-> IF excess > 0 THEN <<excess>> \o extra ELSE <<>>,
                   reservations |-> rsvs \cup {[rid |-> rid, token |-> source.token,
                                                outs |-> S, change |-> excess]}]
                  : extra \in extras}
              : S \in sets}

\* utxodb.Reserve for one source: every reply the engine may give in the state
\* rsvs, with the state the reply leaves. A source whose token names a live
\* reservation is answered with that reservation; otherwise the engine claims
\* unclaimed outputs covering the amount, and reports the excess as the first
\* change bucket.
UtxodbReserve(rsvs, rid, source, extras) ==
    LET same == {r \in rsvs : source.token # None /\ r.token = source.token}
        free == Eligible(source) \ Claimed(rsvs)
        sets == {S \in SUBSET free : Covers(S, source.amount)}
    IN IF same # {}
       THEN {[err |-> NoErr, rid |-> r.rid, reserved |-> SortedSeq(r.outs),
              change |-> IF r.change > 0 THEN <<r.change>> ELSE <<>>,
              reservations |-> rsvs] : r \in same}
       ELSE IF sets = {}
       THEN {[err |-> [kind |-> IF SumAmounts(Eligible(source)) >= source.amount
                                THEN "ReservationConflict"
                                ELSE "InsufficientFunds",
                       stage |-> ""],
              rid |-> None, reserved |-> <<>>, change |-> <<>>, reservations |-> rsvs]}
       ELSE UNION {
              LET excess == SumAmounts(S) - source.amount
              IN {[err |-> NoErr, rid |-> rid, reserved |-> SortedSeq(S),
                   change |-> IF excess > 0 THEN <<excess>> \o extra ELSE <<>>,
                   reservations |-> rsvs \cup {[rid |-> rid, token |-> source.token,
                                                outs |-> S, change |-> excess]}]
                  : extra \in extras}
              : S \in sets}

\* utxodb.Cancel: releases the claims on the outpoints, whoever holds them.
UtxodbCancel(rsvs, outpoints) ==
    [err |-> NoErr,
     reservations |-> {[r EXCEPT !.outs = r.outs \ outpoints] :
                         r \in {x \in rsvs : x.outs \ outpoints # {}}}]

\* ---------------------------------------------------------------- Reserve

Wrap(e, stage) == [kind |-> e.kind, stage |-> stage]

Call(fn, e) == [fn |-> fn, err |-> e.kind]

\* bc.NewSpendInput for a reserved output.
NewSpendInput(r) ==
    [outpoint |-> r.outpoint, assetID |-> r.assetID, amount |-> r.amount,
     prevScript |-> r.script]

\* The template input of a reserved output of an account.
TemplateInput(r, inputAccount, path, redeemScript) ==
    [assetID |-> r.assetID, amount |-> r.amount, quorum |-> inputAccount.quorum,
     sigs |-> InputSigs(inputAccount.xpubs, path), witness |-> redeemScript]

NilResult == [items |-> <<>>, change |-> <<>>]

\* ReserveFail with the claims of the invocation released.
ReserveFailRollback(st, e, stage) ==
    [st EXCEPT !.status = "failed", !.err = Wrap(e, stage), !.result = NilResult,
               !.reservations = {r \in st.reservations : r.rid # st.rid}]

\* A return of Reserve with an error: no result, and nothing undone.
ReserveFail(st, e, stage) ==
    [st EXCEPT !.status = "failed", !.err = Wrap(e, stage), !.result = NilResult]

\* One pass of the loop over the reserved outputs. found is whether the
\* account lookup finds the account.
ReserveItem(st, r, found) ==
    LET find == AccountsFind(r.accountID, found)
        st1 == [st EXCEPT !.calls = Append(st.calls, Call("accounts.Find", find.err))]
    IN IF find.err # NoErr
       THEN ReserveFail(st1, find.err, "get account info")
       ELSE LET inputAccount == find.account
                path == SignersPath(inputAccount, r.controlProgramIndex)
                derivedPKs == XPubKeys(DeriveXPubs(inputAccount.xpubs, path))
                redeem == MultiSigScript(derivedPKs, inputAccount.quorum)
                st2 == [st1 EXCEPT !.calls = Append(st1.calls,
                                       Call("txscript.MultiSigScript", redeem.err))]
            IN IF redeem.err # NoErr
               THEN ReserveFail(st2, redeem.err, "compute redeem script")
               ELSE [st2 EXCEPT !.result.items = Append(st2.result.items,
                        [txInput |-> NewSpendInput(r),
                         templateInput |-> TemplateInput(r, inputAccount, path,
                                                         redeem.script)])]

\* ReserveItems with the loop going on after an error.
RECURSIVE ReserveItemsGoOn(_, _)
ReserveItemsGoOn(st, rs) ==
    IF rs = <<>> THEN {st}
    ELSE UNION {ReserveItemsGoOn(ReserveItem(st, Head(rs), found), Tail(rs))
                : found \in BOOLEAN}

\* Every way the loop over the reserved outputs may end.
RECURSIVE ReserveItems(_, _)
ReserveItems(st, rs) ==
    IF st.status # "running" \/ rs = <<>> THEN {st}
    ELSE UNION {ReserveItems(ReserveItem(st, Head(rs), found), Tail(rs))
                : found \in BOOLEAN}

\* NewAccountDestination with a control program the account holds already,
\* when it holds one.
NewAccountDestinationReuse(rows, assetAmount, accountID, metadata, ok) ==
    LET held == {row.program : row \in {x \in rows : x.accountID = accountID}}
        acp == CreateControlProgram(rows, accountID, ok)
    IN IF acp.err # NoErr
       THEN [err |-> acp.err, dest |-> None, rows |-> acp.rows]
       ELSE [err |-> NoErr,
             dest |-> [assetAmount |-> assetAmount, metadata |-> metadata,
                       receiver |-> [controlProgram |-> IF held = {} THEN acp.program
                                                        ELSE Min(held),
                                     accountID |-> accountID]],
             rows |-> acp.rows]

\* NewAccountDestination: a fresh control program of the account, wrapped
\* with the asset amount.
NewAccountDestination(rows, assetAmount, accountID, metadata, ok) ==
    LET acp == CreateControlProgram(rows, accountID, ok)
    IN IF acp.err # NoErr
       THEN [err |-> acp.err, dest |-> None, rows |-> acp.rows]
       ELSE [err |-> NoErr,
             dest |-> [assetAmount |-> assetAmount, metadata |-> metadata,
                       receiver |-> [controlProgram |-> acp.program,
                                     accountID |-> accountID]],
             rows |-> acp.rows]

\* One pass of the loop over the change amounts.
ReserveChangeDest(st, assetID, accountID, changeAmount, ok) ==
    LET nd == NewAccountDestination(st.acps, [assetID |-> assetID, amount |-> changeAmount],
                                    accountID, None, ok)
        st1 == [st EXCEPT !.calls = Append(st.calls,
                                       Call("accounts.CreateControlProgram", nd.err)),
                          !.acps = nd.rows]
    IN IF nd.err # NoErr
       THEN ReserveFail(st1, nd.err, "creating change destination")
       ELSE [st1 EXCEPT !.result.change = Append(st1.result.change, nd.dest)]

\* Every way the loop over the change amounts may end.
RECURSIVE ReserveChangeDests(_, _, _, _)
ReserveChangeDests(st, assetID, accountID, amounts) ==
    IF st.status # "running" \/ amounts = <<>> THEN {st}
    ELSE UNION {ReserveChangeDests(
                    ReserveChangeDest(st, assetID, accountID, Head(amounts), ok),
                    assetID, accountID, Tail(amounts))
                : ok \in BOOLEAN}

\* ChangeBucket taking the last bucket.
ChangeBucketLast(change) == change[Len(change)]

\* The change bucket Reserve consults.
ChangeBucket(change) == change[1]

\* Every way the change part of Reserve may end.
ReserveChange(st, assetID, accountID, change) ==
    IF st.status # "running" \/ Len(change) = 0 THEN {st}
    ELSE UNION {IF b.status = "panic"
                THEN {[st EXCEPT !.status = "panic", !.result = NilResult]}
                ELSE ReserveChangeDests(st, assetID, accountID, b.amounts)
                : b \in breakupChange(ChangeBucket(change))}

\* Every way Reserve may end once the engine has answered without an error.
ReserveBuildOutcomes(p) ==
    LET st0 == [status |-> "running", err |-> NoErr, result |-> NilResult,
                calls |-> calls[p], acps |-> acps, reservations |-> reservations,
                rid |-> reply[p].rid]
    IN UNION {ReserveChange(st, "asset1", req[p].accountID, reply[p].change)
              : st \in ReserveItems(st0, [i \in 1..Len(reply[p].reserved) |->
                                             Utxo(reply[p].reserved[i])])}

NoReq == [accountID |-> None, amount |-> 0]
NoReply == [rid |-> None, reserved |-> <<>>, change |-> <<>>]

\* Reserve up to the answer of utxodb.Reserve.
ReserveClaim(p, extras) ==
    /\ pc[p] = "idle"
    /\ \A q \in Before(p) : pc[q] # "idle"
    /\ \E accountID \in AccountIDs, filter \in Filters,
          token \in Tokens, amount \in 1..MaxRequest :
         LET source == [assetID |-> "asset1", amount |-> amount, accountID |-> accountID,
                        filter |-> filter, token |-> token]
         IN \E answer \in UtxodbReserve(reservations, p, source, extras) :
              /\ req' = [req EXCEPT ![p] = [accountID |-> accountID, amount |-> amount]]
              /\ calls' = [calls EXCEPT ![p] = <<Call("utxodb.Reserve", answer.err)>>]
              /\ acpsBefore' = [acpsBefore EXCEPT ![p] = Programs(acps)]
              /\ reservations' = answer.reservations
              /\ IF answer.err # NoErr
                 THEN /\ pc' = [pc EXCEPT ![p] = "failed"]
                      /\ err' = [err EXCEPT ![p] = answer.err]
                      /\ UNCHANGED reply
                 ELSE /\ pc' = [pc EXCEPT ![p] = "claimed"]
                      /\ reply' = [reply EXCEPT ![p] = [rid |-> answer.rid,
                                                        reserved |-> answer.reserved,
                                                        change |-> answer.change]]
                      /\ UNCHANGED err
    /\ UNCHANGED <<utxoAmount, accounts, acps, result, cancelErr>>
    /\ UNCHANGED <<loadVars, splitVars>>

\* Reserve from the answer of utxodb.Reserve to its return.
ReserveBuild(p) ==
    /\ pc[p] = "claimed"
    /\ \E st \in ReserveBuildOutcomes(p) :
         /\ pc' = [pc EXCEPT ![p] = IF st.status = "running" THEN "done" ELSE st.status]
         /\ result' = [result EXCEPT ![p] = st.result]
         /\ err' = [err EXCEPT ![p] = st.err]
         /\ calls' = [calls EXCEPT ![p] = st.calls]
         /\ acps' = st.acps
         /\ reservations' = st.reservations
    /\ UNCHANGED <<utxoAmount, accounts, req, reply, acpsBefore, cancelErr>>
    /\ UNCHANGED <<loadVars, splitVars>>

\* ---------------------------------------------------------------- CancelReservations

\* CancelReservations refusing outpoints that no claim holds.
CancelReservationsStrict(rsvs, outpoints) ==
    IF outpoints \subseteq Claimed(rsvs)
    THEN UtxodbCancel(rsvs, outpoints)
    ELSE [err |-> [kind |-> "NotReserved", stage |-> ""], reservations |-> rsvs]

\* CancelReservations in the engine state rsvs: the error it returns and the
\* state it leaves.
CancelReservations(rsvs, outpoints) == UtxodbCancel(rsvs, outpoints)

CancelCall(outpoints) ==
    LET cancel == CancelReservations(reservations, outpoints)
    IN /\ reservations' = cancel.reservations
       /\ cancelErr' = cancel.err
       /\ UNCHANGED <<utxoAmount, accounts, acps, pc, req, reply, result, err, calls,
                      acpsBefore>>
       /\ UNCHANGED <<loadVars, splitVars>>

\* The engine releases a claim whose time-to-live has elapsed.
Expire(r) ==
    /\ r \in reservations
    /\ reservations' = reservations \ {r}
    /\ UNCHANGED <<utxoAmount, accounts, acps, pc, req, reply, result, err, calls,
                   acpsBefore, cancelErr>>
    /\ UNCHANGED <<loadVars, splitVars>>

\* ---------------------------------------------------------------- LoadAccountInfo

\* The control programs outputs may carry: those the directory allocates, and
\* program 0 of a party the directory never knows.
ProgramIDs == 0..MaxPrograms

\* The outputs a caller may hand over: at most MaxOuts distinct outputs, each
\* with its control program.
OutputSeqs ==
    UNION {{[i \in 1..n |-> [outpoint |-> i, controlProgram |-> f[i]]]
            : f \in [1..n -> ProgramIDs]} : n \in 0..MaxOuts}

\* The map from control program to the outputs that carry it, in input order.
OutsByScript(outs) ==
    [s \in {outs[i].controlProgram : i \in 1..Len(outs)} |->
        SelectSeq(outs, LAMBDA out : out.controlProgram = s)]

\* The rows the query selects: those whose control program is among scripts.
QueryRows(table, scripts) == {row \in table : row.program \in scripts}

\* The orders in which the rows of a set may be delivered.
RowOrders(rows) ==
    {order \in [1..Cardinality(rows) -> rows] :
        \A i, j \in 1..Cardinality(rows) : i # j => order[i] # order[j]}

\* copy(newOut.keyIndex[:], keyIndex) into the zeroed array of an output.
CopyKeyIndex(keyIndex) == [i \in 1..2 |-> IF i <= Len(keyIndex) THEN keyIndex[i] ELSE 0]

\* AnnotateRow annotating the first output of the row's program only.
AnnotateRowFirstOnly(outsByScript, row) ==
    IF row.program \in DOMAIN outsByScript
    THEN <<[output |-> outsByScript[row.program][1], accountID |-> row.accountID,
            keyIndex |-> CopyKeyIndex(row.keyIndex)]>>
    ELSE <<>>

\* The callback of the query for one row: every output of the row's program,
\* annotated with the row's account and key index.
AnnotateRow(outsByScript, row) ==
    IF row.program \in DOMAIN outsByScript
    THEN [i \in 1..Len(outsByScript[row.program]) |->
             [output |-> outsByScript[row.program][i], accountID |-> row.accountID,
              keyIndex |-> CopyKeyIndex(row.keyIndex)]]
    ELSE <<>>

RECURSIVE AnnotateRows(_, _)
AnnotateRows(outsByScript, rows) ==
    IF rows = <<>> THEN <<>>
    ELSE AnnotateRow(outsByScript, Head(rows)) \o AnnotateRows(outsByScript, Tail(rows))

\* pg.ForQueryRows: the selected rows in some order, and the error of a query
\* that fails.
ForQueryRows(table, scripts, queryOk) ==
    {[rows |-> order,
      err |-> IF queryOk THEN NoErr ELSE [kind |-> "IndexQueryFailed", stage |-> ""]]
     : order \in RowOrders(QueryRows(table, scripts))}

\* LoadAccountInfo failing when an output's control program has no row.
LoadAccountInfoStrict(outs, query) ==
    LET outsByScript == OutsByScript(outs)
        annotated == AnnotateRows(outsByScript, query.rows)
    IN IF query.err # NoErr
       THEN [result |-> <<>>, err |-> query.err]
       ELSE IF Len(annotated) < Len(outs)
       THEN [result |-> <<>>, err |-> [kind |-> "AccountNotFound", stage |-> ""]]
       ELSE [result |-> annotated, err |-> NoErr]

\* LoadAccountInfo for the outcome of the query: the annotated outputs, or the
\* error of the query and no output.
LoadAccountInfo(outs, query) ==
    LET outsByScript == OutsByScript(outs)
        annotated == AnnotateRows(outsByScript, query.rows)
    IN IF query.err # NoErr
       THEN [result |-> <<>>, err |-> query.err]
       ELSE [result |-> annotated, err |-> NoErr]

\* One call of LoadAccountInfo; the function keeps no state between calls.
LoadCall ==
    /\ loadErr = NotCalled
    /\ \E outs \in OutputSeqs, queryOk \in BOOLEAN :
        \E query \in ForQueryRows(acps, DOMAIN OutsByScript(outs), queryOk) :
          LET load == LoadAccountInfo(outs, query)
          IN /\ loadOuts' = outs
             /\ loadIndex' = acps
             /\ loadQuery' = query
             /\ loadResult' = load.result
             /\ loadErr' = load.err
             /\ UNCHANGED <<reserveVars, acps, splitVars>>

\* A caller allocates a destination of an account.
DestinationCall ==
    /\ Cardinality(acps) < MaxPrograms
    /\ \E accountID \in AccountIDs, amount \in 1..MaxRequest, ok \in BOOLEAN :
         acps' = NewAccountDestination(acps, [assetID |-> "asset1", amount |-> amount],
                                       accountID, None, ok).rows
    /\ UNCHANGED <<reserveVars, loadVars, splitVars>>

\* ---------------------------------------------------------------- specifications

IdleLoad ==
    /\ loadOuts = <<>>
    /\ loadIndex = {}
    /\ loadQuery = [rows |-> <<>>, err |-> NotCalled]
    /\ loadResult = <<>>
    /\ loadErr = NotCalled

IdleSplit ==
    /\ splitInput = 0
    /\ split = BreakupStart(0)

IdleReserve ==
    /\ reservations = {}
    /\ pc = [p \in Invocations |-> "idle"]
    /\ req = [p \in Invocations |-> NoReq]
    /\ reply = [p \in Invocations |-> NoReply]
    /\ result = [p \in Invocations |-> NilResult]
    /\ err = [p \in Invocations |-> NoErr]
    /\ calls = [p \in Invocations |-> <<>>]
    /\ acpsBefore = [p \in Invocations |-> {}]
    /\ cancelErr = NoErr

Ledger ==
    /\ utxoAmount \in {f \in [Outpoints -> UtxoAmounts] :
                         /\ \A o \in Outpoints \ {1} : f[o - 1] <= f[o]
                         /\ SumSeq([o \in Outpoints |-> f[o]]) <= MaxUint}
    /\ accounts \in {f \in [AccountIDs -> AccountChoices] : f["acc2"].quorum = 2}
    /\ acps = InitialRows

Init == Ledger /\ IdleReserve /\ IdleLoad /\ IdleSplit

Next ==
    \/ \E p \in Invocations : ReserveClaim(p, NoExtraBuckets)
    \/ \E p \in Invocations : ReserveBuild(p)
    \/ \E outpoints \in SUBSET Outpoints : CancelCall(outpoints)
    \/ \E r \in reservations : Expire(r)

Spec == Init /\ [][Next]_vars

\* One invocation against an engine that may report a further change bucket.
NextBuckets ==
    \/ ReserveClaim("r1", ExtraBuckets)
    \/ ReserveBuild("r1")
    \/ \E outpoints \in SUBSET Outpoints : CancelCall(outpoints)
    \/ \E r \in reservations : Expire(r)

SpecBuckets == Init /\ [][NextBuckets]_vars

\* LoadAccountInfo against a directory that allocates control programs.
LoadInit ==
    /\ utxoAmount = [o \in Outpoints |-> 1]
    /\ accounts = [a \in AccountIDs |-> CHOOSE c \in AccountChoices : c.quorum = 2]
    /\ acps = InitialRows
    /\ IdleReserve
    /\ IdleLoad
    /\ IdleSplit

LoadNext == LoadCall \/ DestinationCall

SpecLoad == LoadInit /\ [][LoadNext]_vars

SplitInit ==
    /\ splitInput \in Uint
    /\ split = BreakupStart(splitInput)
    /\ utxoAmount = [o \in Outpoints |-> 1]
    /\ accounts = [a \in AccountIDs |-> CHOOSE c \in AccountChoices : c.quorum = 2]
    /\ acps = InitialRows
    /\ IdleReserve
    /\ IdleLoad

SplitIter ==
    /\ split.status = "loop"
    /\ \E c \in BreakupDraws(split) : split' = BreakupIter(split, c[1], c[2])
    /\ UNCHANGED <<splitInput, reserveVars, acps, loadVars>>

SplitNext == SplitIter

SpecSplit == SplitInit /\ [][SplitNext]_vars

\* ---------------------------------------------------------------- properties

ItemAmounts(p) == [i \in 1..Len(result[p].items) |-> result[p].items[i].txInput.amount]
ItemOutpoints(p) == {result[p].items[i].txInput.outpoint : i \in 1..Len(result[p].items)}
ChangeAmounts(p) == [i \in 1..Len(result[p].change) |-> result[p].change[i].assetAmount.amount]
ChangePrograms(p) ==
    [i \in 1..Len(result[p].change) |-> result[p].change[i].receiver.controlProgram]
ReservedAmounts(p) == [i \in 1..Len(reply[p].reserved) |-> utxoAmount[reply[p].reserved[i]]]
CallsOf(p, fn) == SelectSeq(calls[p], LAMBDA c : c.fn = fn)
CallsMade(p, fn) == Len(CallsOf(p, fn))
Allocations(p) ==
    Len(SelectSeq(calls[p],
                  LAMBDA c : c.fn = "accounts.CreateControlProgram" /\ c.err = "nil"))

\* The engine answered invocation p with outputs worth the requested amount
\* plus the change it reported.
ExcessAsChange(p) ==
    SumSeq(ReservedAmounts(p)) = req[p].amount + SumSeq(reply[p].change)

\* C1: in every successful Reserve against an engine that returns the reserved
\* outputs and the excess as change, the amounts of the returned transaction
\* inputs sum to the requested amount plus the amounts of the returned change
\* destinations.
C1_InputsEqualRequestPlusChange ==
    \A p \in Invocations :
        (pc[p] = "done" /\ ExcessAsChange(p)) =>
            SumSeq(ItemAmounts(p)) = req[p].amount + SumSeq(ChangeAmounts(p))

\* A successful Reserve of two outputs whose excess came back in two pieces.
C1_Witness ==
    \E p \in Invocations :
        /\ pc[p] = "done"
        /\ ExcessAsChange(p)
        /\ Len(result[p].items) = 2
        /\ Len(result[p].change) = 2

\* Invocation p returned an item for outpoint o and the claim the engine
\* answered it with still holds o.
Holds(p, o) ==
    /\ pc[p] = "done"
    /\ o \in ItemOutpoints(p)
    /\ \E r \in reservations : r.rid = reply[p].rid /\ o \in r.outs

\* C2 as stated: no two Reserve invocations both succeed and return an item
\* for the same outpoint while the claim on it is live.
C2_NoTwoInvocationsShareAnOutput ==
    \A p, q \in Invocations : \A o \in Outpoints :
        (p # q /\ Holds(p, o)) => ~Holds(q, o)

\* C2 as amended: no output is held by two live claims at once, and two
\* successful invocations return an item for the same live-claimed outpoint
\* only when the engine answered both with one and the same claim, made under
\* an idempotency token.
C2_AtMostOneClaim ==
    /\ \A r1, r2 \in reservations : r1 # r2 => r1.outs \cap r2.outs = {}
    /\ \A p, q \in Invocations : \A o \in Outpoints :
          (p # q /\ Holds(p, o) /\ Holds(q, o)) =>
              /\ reply[p].rid = reply[q].rid
              /\ \A r \in reservations : r.rid = reply[p].rid => r.token # None

\* Two invocations contended for the outputs: the second was refused while the
\* first one's claim was live, or was answered with the first one's claim.
C2_Witness ==
    /\ pc["r1"] = "done"
    /\ \E r \in reservations : r.rid = "r1"
    /\ \/ pc["r2"] = "failed" /\ err["r2"].kind = "ReservationConflict"
       \/ \E o \in Outpoints : Holds("r1", o) /\ Holds("r2", o)

\* C3: breakupChange(total), for every total >= 1 and all draws, returns a
\* non-empty sequence of strictly positive integers that sum to total, and
\* breakupChange(1) returns <<1>>.
C3_SplitIsPartition ==
    (split.status # "loop" /\ splitInput >= 1) =>
        /\ split.status = "done"
        /\ split.amounts # <<>>
        /\ \A i \in 1..Len(split.amounts) : split.amounts[i] > 0
        /\ SumSeq(split.amounts) = splitInput
        /\ splitInput = 1 => split.amounts = <<1>>

\* The number of returned annotated outputs that carry control program s.
Annotated(s) == Len(SelectSeq(loadResult, LAMBDA a : a.output.controlProgram = s))
GroupSize(s) == Len(SelectSeq(loadOuts, LAMBDA out : out.controlProgram = s))

\* C4: a successful LoadAccountInfo returns, for every group of N outputs that
\* share a control program, either no annotated output or exactly N.
C4_GroupAllOrNothing ==
    loadErr = NoErr =>
        \A s \in ProgramIDs : Annotated(s) \in {0, GroupSize(s)}

\* A successful call that annotated a group of two outputs and dropped another
\* output.
C4_Witness ==
    /\ loadErr = NoErr
    /\ \E s, t \in ProgramIDs :
          /\ GroupSize(s) = 2 /\ Annotated(s) = 2
          /\ GroupSize(t) > 0 /\ Annotated(t) = 0

\* C5: LoadAccountInfo returns an error exactly when the index query fails;
\* when the query succeeds, the outputs whose control program has no index row
\* are absent and all others present, and every annotated output carries the
\* account and key index of the row of its own control program.
C5_ErrorOnlyFromQuery ==
    /\ loadErr = loadQuery.err
    /\ loadErr # NoErr => loadResult = <<>>
    /\ loadErr = NoErr =>
          /\ \A i \in 1..Len(loadOuts) :
                (\E k \in 1..Len(loadResult) : loadResult[k].output = loadOuts[i])
                    <=> loadOuts[i].controlProgram \in Programs(loadIndex)
          /\ \A k \in 1..Len(loadResult) :
                \E row \in loadIndex :
                    /\ row.program = loadResult[k].output.controlProgram
                    /\ row.accountID = loadResult[k].accountID
                    /\ row.keyIndex = loadResult[k].keyIndex

\* A successful call over an output with an index row and one without, with
\* rows of two accounts in the index.
C5_Witness ==
    /\ loadErr = NoErr
    /\ loadResult # <<>>
    /\ \E i \in 1..Len(loadOuts) : loadOuts[i].controlProgram \notin Programs(loadIndex)
    /\ \E a, b \in Range(loadResult) : a.accountID # b.accountID

\* C6: CancelReservations never returns an error; a second call on the same
\* outpoints leaves the live claims as the first call left them, and a call on
\* outpoints that no claim holds leaves the live claims unchanged.
C6_CancelIdempotent ==
    /\ cancelErr = NoErr
    /\ \A outpoints \in SUBSET Outpoints :
          LET first == CancelReservations(reservations, outpoints)
              second == CancelReservations(first.reservations, outpoints)
          IN /\ first.err = NoErr
             /\ second.err = NoErr
             /\ second.reservations = first.reservations
             /\ outpoints \cap Claimed(first.reservations) = {}
             /\ outpoints \cap Claimed(reservations) = {} =>
                    first.reservations = reservations

\* A claim of two outputs of which a cancellation released one.
C6_Witness ==
    \E p \in Invocations : \E r \in reservations :
        /\ r.rid = p
        /\ reply[p].rid = p
        /\ Cardinality(r.outs) < Len(reply[p].reserved)

\* C7: in every successful Reserve result each change destination has a control
\* program of its own, allocated by a CreateControlProgram call of that
\* invocation: as many allocations as change pieces, no program twice, none
\* that existed before the invocation.
C7_ChangeProgramsFresh ==
    \A p \in Invocations :
        pc[p] = "done" =>
            /\ Allocations(p) = Len(result[p].change)
            /\ CallsMade(p, "accounts.CreateControlProgram") = Len(result[p].change)
            /\ \A i, j \in 1..Len(result[p].change) :
                  i # j => ChangePrograms(p)[i] # ChangePrograms(p)[j]
            /\ Range(ChangePrograms(p)) \cap acpsBefore[p] = {}
            /\ Range(ChangePrograms(p)) \subseteq Programs(acps)

\* A successful Reserve with two change destinations.
C7_Witness ==
    \E p \in Invocations : pc[p] = "done" /\ Len(result[p].change) = 2

\* C8: a Reserve that fails after the engine has claimed outputs releases no
\* claim and removes no allocated control program, and no step of a Reserve
\* invocation ever does.
C8_NoRollback ==
    [][/\ \A p \in Invocations :
             (pc[p] = "claimed" /\ pc'[p] = "failed") =>
                 /\ reservations' = reservations
                 /\ acps \subseteq acps'
                 /\ Cardinality(acps') = Cardinality(acps) + Allocations(p)'
       /\ pc' # pc => (reservations \subseteq reservations' /\ acps \subseteq acps')]_vars

\* A Reserve that failed at its second allocation: its claim is live and the
\* control program of its first allocation is still there.
C8_Witness ==
    \E p \in Invocations :
        /\ pc[p] = "failed"
        /\ err[p].stage = "creating change destination"
        /\ Allocations(p) = 1
        /\ \E r \in reservations : r.rid = reply[p].rid /\ r.outs = Range(reply[p].reserved)
        /\ Cardinality(acps) > Cardinality(acpsBefore[p])

\* The stage tag Reserve gives the error of an external call.
StageOf(fn) ==
    CASE fn = "utxodb.Reserve" -> ""
      [] fn = "accounts.Find" -> "get account info"
      [] fn = "txscript.MultiSigScript" -> "compute redeem script"
      [] fn = "accounts.CreateControlProgram" -> "creating change destination"

\* C9: the first external call that fails ends the invocation: it is the last
\* call made, the invocation returns its error kind under the stage tag and no
\* result; the engine is called once, first, and after an engine error nothing
\* else is called.
C9_FailureIsTerminal ==
    \A p \in Invocations :
        /\ pc[p] # "idle" =>
              /\ CallsMade(p, "utxodb.Reserve") = 1
              /\ calls[p][1].fn = "utxodb.Reserve"
        /\ \A i \in 1..(Len(calls[p]) - 1) : calls[p][i].err = "nil"
        /\ pc[p] = "failed" <=> (calls[p] # <<>> /\ calls[p][Len(calls[p])].err # "nil")
        /\ pc[p] = "failed" =>
              /\ result[p] = NilResult
              /\ err[p].kind = calls[p][Len(calls[p])].err
              /\ err[p].stage = StageOf(calls[p][Len(calls[p])].fn)
        /\ pc[p] # "failed" => err[p] = NoErr

\* A Reserve that failed at the account lookup of its second reserved output.
C9_Witness ==
    \E p \in Invocations :
        /\ pc[p] = "failed"
        /\ err[p] = [kind |-> "AccountNotFound", stage |-> "get account info"]
        /\ CallsMade(p, "accounts.Find") = 2

\* C10: a successful Reserve turns the first change bucket alone into change:
\* the change amounts sum to the first bucket's amount whatever the further
\* buckets hold, and with no bucket there is no change destination and no
\* allocation.
C10_FirstBucketOnly ==
    \A p \in Invocations :
        pc[p] = "done" =>
            /\ Len(reply[p].change) > 0 =>
                  SumSeq(ChangeAmounts(p)) = reply[p].change[1]
            /\ Len(reply[p].change) = 0 =>
                  /\ result[p].change = <<>>
                  /\ CallsMade(p, "accounts.CreateControlProgram") = 0

\* A successful Reserve answered with two change buckets of different amounts.
C10_Witness ==
    \E p \in Invocations :
        /\ pc[p] = "done"
        /\ Len(reply[p].change) = 2
        /\ reply[p].change[1] # reply[p].change[2]
        /\ result[p].change # <<>>

====
